---- MODULE Spec2Model ----
(***************************************************************************)
(* A model of opsview-html-email.js: the script that turns one Nagios      *)
(* notification (environment variables plus command line) into raw email  *)
(* text on standard output.  Every top-level statement group of the script *)
(* is one action; pc is the position of the script.                         *)
(***************************************************************************)
EXTENDS Integers, Sequences, FiniteSets, TLC

\* Bound of the model: the length of the command line.
MaxArgs == 2

(***************************************************************************)
(* JavaScript string values.  A string is a sequence of pieces; a piece is *)
(* an atom of text together with the encodings applied to it, so that      *)
(* concatenation is \o, the empty string is << >>, and JSON quoting and    *)
(* HTML escaping change the value.  undefined and null are two reserved    *)
(* one-piece values.                                                       *)
(***************************************************************************)
Lit(s) == [s |-> s, enc |-> << >>]
Of(s) == IF s = "" THEN << >> ELSE << Lit(s) >>
JsUndefined == << [s |-> "undefined", enc |-> << "#" >>] >>
JsNull == << [s |-> "null", enc |-> << "#" >>] >>
Truthy(v) == v # << >> /\ v # JsUndefined /\ v # JsNull
\* util.format's %s, and console.log's: String(v)
ToStr(v) ==
  IF v = JsUndefined THEN Of("undefined")
  ELSE IF v = JsNull THEN Of("null")
  ELSE v
Encode(text, e) == [i \in DOMAIN text |-> [text[i] EXCEPT !.enc = Append(@, e)]]
JsonQuote(text) == IF text = << >> THEN << Lit("\"\"") >> ELSE Encode(text, "json")
HtmlEscape(text) == Encode(text, "html")

(***************************************************************************)
(* The command line (process.argv after the node binary and the script).   *)
(***************************************************************************)
ArgOptions == {"-a", "-s", "-t"}
FlagOptions == {"-h", "-u", "-v"}
OptionLike == ArgOptions \cup FlagOptions \cup {"-x"}
Tokens == OptionLike \cup {"--", "", "w"}
RECURSIVE SeqsUpTo(_, _)
SeqsUpTo(S, n) ==
  IF n = 0 THEN {<< >>}
  ELSE LET shorter == SeqsUpTo(S, n - 1)
       IN  shorter \cup {Append(q, t) : q \in {r \in shorter : Len(r) = n - 1}, t \in S}
Argvs == SeqsUpTo(Tokens, MaxArgs)

\* One call of parser.getopt() at index optind: the option found ("end"
\* for undefined, "?" for an unknown option or a missing argument), its
\* argument and the index afterwards.
Getopt(av, oi) ==
  IF oi > Len(av) THEN [option |-> "end", optarg |-> "", optind |-> oi]
  ELSE IF av[oi] = "--" THEN [option |-> "end", optarg |-> "", optind |-> oi + 1]
  ELSE IF av[oi] \notin OptionLike THEN [option |-> "end", optarg |-> "", optind |-> oi]
  ELSE IF av[oi] \in FlagOptions THEN [option |-> av[oi], optarg |-> "", optind |-> oi + 1]
  ELSE IF av[oi] \in ArgOptions /\ oi + 1 <= Len(av)
       THEN [option |-> av[oi], optarg |-> av[oi + 1], optind |-> oi + 2]
  ELSE [option |-> "?", optarg |-> "", optind |-> oi + 1]

(***************************************************************************)
(* The process environment.  A variable name is <<prefix, rest>>, so that  *)
(* the NAGIOS_ prefix test and its stripping are computed; Unset marks a   *)
(* variable that is not in the environment.                                *)
(***************************************************************************)
Unset == "#unset"
Prefix == "NAGIOS_"
KeyOrder == << "CONTACTEMAIL", "SERVICEATTEMPT", "NOTIFICATIONAUTHOR", "HOSTADDRESS",
               "HOSTSTATE", "SERVICESTATE", "SERVICEDESC", "NOTIFICATIONTYPE" >>
DetailNames == {"HOSTADDRESS", "HOSTSTATE", "SERVICESTATE", "SERVICEDESC", "NOTIFICATIONTYPE"}
DetailValue(n) ==
  CASE n = "HOSTADDRESS" -> "web1"
    [] n = "HOSTSTATE" -> "DOWN"
    [] n = "SERVICESTATE" -> "CRITICAL"
    [] n = "SERVICEDESC" -> "disk"
    [] n = "NOTIFICATIONTYPE" -> "ACKNOWLEDGEMENT"
\* which of the detail variables the daemon did not export
MissingDetails == {{}, {"HOSTSTATE"}, DetailNames}
EnvKeys == {<< Prefix, KeyOrder[i] >> : i \in DOMAIN KeyOrder} \cup {<< "", "PATH" >>}
MkEnv(contact, attempt, author, missing) ==
  [k \in EnvKeys |->
     IF k[1] # Prefix THEN "/usr/bin"
     ELSE IF k[2] = "CONTACTEMAIL" THEN contact
     ELSE IF k[2] = "SERVICEATTEMPT" THEN attempt
     ELSE IF k[2] = "NOTIFICATIONAUTHOR" THEN author
     ELSE IF k[2] \in missing THEN Unset
     ELSE DetailValue(k[2])]
Envs ==
  {MkEnv(c, a, n, m) : c \in {Unset, "", "a@b.com"}, a \in {Unset, "", "1"},
                       n \in {Unset, "", "admin"},
                       m \in MissingDetails}
\* process.env.NAME
EnvGet(e, k) == IF e[k] = Unset THEN JsUndefined ELSE Of(e[k])
\* obj.NAME on the snapshot
Get(obj, n) == IF n \in DOMAIN obj THEN Of(obj[n]) ELSE JsUndefined

Package == [name |-> "opsview-html-email", version |-> "version"]
Usage == Of("Usage: opsview-html-email [options] [arg1] [arg2] ...")
BuiltinTemplates == Of("__dirname/templates")

VARIABLES argv, env, pc, optind, opts, parsed, args, nagios, data, type,
          message, templfile, file, rendered, r1, r2, stdout, stderr,
          exitcode, update

vars == << argv, env, pc, optind, opts, parsed, args, nagios, data, type,
           message, templfile, file, rendered, r1, r2, stdout, stderr,
           exitcode, update >>

Running == -1
NoObject == [k \in {} |-> << >>]
NoRender == [ok |-> FALSE, out |-> << >>, msg |-> << >>]
NoFile == [found |-> FALSE, templ |-> ""]
NoUpdate == [state |-> "none", ret |-> 0, msg |-> << >>]

Init ==
  /\ argv \in Argvs
  /\ env \in Envs
  /\ pc = "parse"
  /\ optind = 1
  /\ opts = [subject |-> JsNull, templatedir |-> BuiltinTemplates,
             to |-> EnvGet(env, << Prefix, "CONTACTEMAIL" >>)]
  /\ parsed = << >>
  /\ args = << >>
  /\ nagios = NoObject
  /\ data = NoObject
  /\ type = JsUndefined
  /\ message = JsUndefined
  /\ templfile = JsUndefined
  /\ file = NoFile
  /\ rendered = << >>
  /\ r1 = NoRender
  /\ r2 = NoRender
  /\ stdout = << >>
  /\ stderr = << >>
  /\ exitcode = Running
  /\ update = NoUpdate

(***************************************************************************)
(* Pure helpers of the script.                                             *)
(***************************************************************************)
Range(q) == {q[i] : i \in DOMAIN q}
RECURSIVE Concat(_, _)
Concat(texts, i) == IF i > Len(texts) THEN << >> ELSE texts[i] \o Concat(texts, i + 1)

\* nagios: every NAGIOS_ variable of the environment, prefix stripped
NagiosSnapshot(e) ==
  [n \in {k[2] : k \in {x \in EnvKeys : e[x] # Unset /\ x[1] = Prefix}} |->
     e[<< Prefix, n >>]]

\* the three-way rule of the alert type
Host == Of("host")
Service == Of("service")
Ack == Of("ack")
\* the author is tested by the presence of its key, not by its value
ClassifyType_AuthorPresent(e, ng) ==
  IF ~Truthy(EnvGet(e, << Prefix, "SERVICEATTEMPT" >>)) THEN Host
  ELSE IF "NOTIFICATIONAUTHOR" \in DOMAIN ng THEN Ack
  ELSE Service
\* the author is tested before the service attempt
ClassifyType_AuthorFirst(e, ng) ==
  IF Truthy(Get(ng, "NOTIFICATIONAUTHOR")) THEN Ack
  ELSE IF ~Truthy(EnvGet(e, << Prefix, "SERVICEATTEMPT" >>)) THEN Host
  ELSE Service
ClassifyType(e, ng) ==
  IF ~Truthy(EnvGet(e, << Prefix, "SERVICEATTEMPT" >>)) THEN Host
  ELSE IF Truthy(Get(ng, "NOTIFICATIONAUTHOR")) THEN Ack
  ELSE Service

\* only an undefined recipient is refused, an empty one passes
RecipientMissing_UndefinedOnly(to) == to = JsUndefined
RecipientMissing(to) == ~Truthy(to)

\* the service and the acknowledgement subjects change places
DefaultSubject_Swapped(ty, ng) ==
  IF ty = Host
    THEN ToStr(Get(ng, "HOSTADDRESS")) \o Of(" is ") \o ToStr(Get(ng, "HOSTSTATE"))
  ELSE IF ty = Ack
    THEN ToStr(Get(ng, "SERVICESTATE")) \o Of(": ") \o ToStr(Get(ng, "HOSTADDRESS"))
         \o Of(" - ") \o ToStr(Get(ng, "SERVICEDESC"))
  ELSE ToStr(Get(ng, "NOTIFICATIONTYPE")) \o Of(": ") \o ToStr(Get(ng, "HOSTADDRESS"))
       \o Of(" - ") \o ToStr(Get(ng, "SERVICEDESC"))
DefaultSubject(ty, ng) ==
  IF ty = Host
    THEN ToStr(Get(ng, "HOSTADDRESS")) \o Of(" is ") \o ToStr(Get(ng, "HOSTSTATE"))
  ELSE IF ty = Service
    THEN ToStr(Get(ng, "SERVICESTATE")) \o Of(": ") \o ToStr(Get(ng, "HOSTADDRESS"))
         \o Of(" - ") \o ToStr(Get(ng, "SERVICEDESC"))
  ELSE IF ty = Ack
    THEN ToStr(Get(ng, "NOTIFICATIONTYPE")) \o Of(": ") \o ToStr(Get(ng, "HOSTADDRESS"))
         \o Of(" - ") \o ToStr(Get(ng, "SERVICEDESC"))
  ELSE Of("unknown type - ") \o ToStr(ty)
SubjectFor(subject, ty, ng) == IF ~Truthy(subject) THEN DefaultSubject(ty, ng) ELSE subject

\* Reply-To and Subject change places
HeaderLines_SubjectFirst(to, subject) ==
  << Of("To: ") \o ToStr(to),
     Of("Subject: ") \o ToStr(subject),
     Of("Reply-To: ") \o ToStr(to),
     Of("Content-Type: text/html"),
     << >> >>
HeaderLines(to, subject) ==
  << Of("To: ") \o ToStr(to),
     Of("Reply-To: ") \o ToStr(to),
     Of("Subject: ") \o ToStr(subject),
     Of("Content-Type: text/html"),
     << >> >>

\* JSON.stringify(data, null, 2): the keys of the object in order, each
\* with its value; strings are quoted.
ArgsJson(a) == Concat([i \in DOMAIN a |-> JsonQuote(Of(a[i])) \o Of(",")], 1)
NagiosJson(ng) ==
  Concat([i \in DOMAIN KeyOrder |->
            IF KeyOrder[i] \in DOMAIN ng
              THEN JsonQuote(Of(KeyOrder[i])) \o Of(": ") \o JsonQuote(Of(ng[KeyOrder[i]]))
                   \o Of(",")
              ELSE << >>], 1)
PackageJson(p) ==
  Of("{\"name\": ") \o JsonQuote(Of(p.name)) \o Of(",\"version\": ")
  \o JsonQuote(Of(p.version)) \o Of("}")
JsonStringify(d) ==
  Of("{")
  \o (IF "args" \in DOMAIN d THEN Of("\"args\": [") \o ArgsJson(d["args"]) \o Of("],") ELSE << >>)
  \o (IF "nagios" \in DOMAIN d THEN Of("\"nagios\": {") \o NagiosJson(d["nagios"]) \o Of("},")
      ELSE << >>)
  \o (IF "package" \in DOMAIN d THEN Of("\"package\": ") \o PackageJson(d["package"]) \o Of(",")
      ELSE << >>)
  \o (IF "d" \in DOMAIN d THEN Of("\"d\": ") \o JsonQuote(d["d"]) ELSE << >>)
  \o Of("}")
\* the dump replaces the context instead of joining it
WithD_Only(d, text) == [k \in {"d"} |-> text]
WithD(d, text) == [k \in DOMAIN d \cup {"d"} |-> IF k = "d" THEN text ELSE d[k]]

\* ejs.render(templ, data): the templates a template directory may hold,
\* and what each renders to.  engineOk = FALSE is the engine itself throwing.
InlineTemplate == "<html><body><pre><%= d %></pre></body></html>"
FileTemplates == {"", "<p>alert</p>", InlineTemplate, "<% if %>"}
Rendered(out) == [ok |-> TRUE, out |-> out, msg |-> << >>]
Thrown(msg) == [ok |-> FALSE, out |-> << >>, msg |-> Of(msg)]
EjsRender(templ, d, engineOk) ==
  IF ~engineOk THEN Thrown("ejs failure")
  ELSE IF templ = "" THEN Rendered(<< >>)
  ELSE IF templ = InlineTemplate
    THEN IF "d" \in DOMAIN d
           THEN Rendered(Of("<html><body><pre>") \o HtmlEscape(ToStr(d["d"]))
                         \o Of("</pre></body></html>"))
           ELSE Thrown("d is not defined")
  ELSE IF templ = "<% if %>" THEN Thrown("Unexpected token")
  ELSE Rendered(Of(templ))

\* fs.readFileSync(templfile): what the file system answers
FileReads == {NoFile} \cup {[found |-> TRUE, templ |-> t] : t \in FileTemplates}
PathJoin(dir, name) == IF dir = << >> THEN name ELSE dir \o Of("/") \o name

\* catch of the inline render: the error text becomes the message
InlineErrorText(msg) == Of("error rendering default template!: ") \o ToStr(msg)
InlineStage(res) == IF res.ok THEN res.out ELSE InlineErrorText(res.msg)
\* the file stage: overwrite on success, keep the message otherwise
FileFailed(f, res) == ~f.found \/ ~res.ok
\* the catch of the file stage overwrites the message too
FileStage_Overwrite(msg, f, res) == res.out
FileStage(msg, f, res) == IF FileFailed(f, res) THEN msg ELSE res.out
FileErrorMsg(f, res) == IF ~f.found THEN Of("ENOENT: no such file or directory") ELSE res.msg
FileErrorLine(path, msg) == Of("template ") \o ToStr(path) \o Of(" error: ") \o ToStr(msg)

MissingRecipientText == Of("env NAGIOS_CONTACTEMAIL or -a <address> must be supplied!")
MissingTypeText == Of("a type must be specified as the first argument!")
GetoptErrorText == Of("option error")

\* latest.checkupdate's callback arguments
UpdateRets == {0, 1, 2}
UpdateMsgs == {Of("you are up to date"), Of("update available")}

\* console.error(...) and console.log(...) on the two streams of the process
ConsoleError_ToStdout(st, lines) == [st EXCEPT !.out = @ \o lines]
ConsoleError(st, lines) == [st EXCEPT !.err = @ \o lines]
ConsoleLog(st, lines) == [st EXCEPT !.out = @ \o lines]
Streams == [out |-> stdout, err |-> stderr]
Write(st) == stdout' = st.out /\ stderr' = st.err

(***************************************************************************)
(* The script, top to bottom.                                              *)
(***************************************************************************)
Exit(code) == pc' = "exited" /\ exitcode' = code
Returned(g) == Append(parsed, [option |-> g.option, optarg |-> g.optarg])

\* case 'a': opts.to = option.optarg
OptAddress ==
  /\ pc = "parse"
  /\ LET g == Getopt(argv, optind)
     IN  /\ g.option = "-a"
         /\ opts' = [opts EXCEPT !.to = Of(g.optarg)]
         /\ optind' = g.optind
         /\ parsed' = Returned(g)
  /\ UNCHANGED << argv, env, pc, args, nagios, data, type, message, templfile, file,
                  rendered, r1, r2, stdout, stderr, exitcode, update >>

\* -h without its process.exit: the loop goes on
OptHelp_NoExit ==
  /\ pc = "parse"
  /\ LET g == Getopt(argv, optind)
     IN  /\ g.option = "-h"
         /\ optind' = g.optind
         /\ parsed' = Returned(g)
  /\ Write(ConsoleLog(Streams, << Usage >>))
  /\ UNCHANGED << argv, env, pc, exitcode, opts, args, nagios, data, type, message,
                  templfile, file, rendered, r1, r2, update >>

\* case 'h': console.log(usage()); process.exit(0)
OptHelp ==
  /\ pc = "parse"
  /\ LET g == Getopt(argv, optind)
     IN  /\ g.option = "-h"
         /\ optind' = g.optind
         /\ parsed' = Returned(g)
  /\ Write(ConsoleLog(Streams, << Usage >>))
  /\ Exit(0)
  /\ UNCHANGED << argv, env, opts, args, nagios, data, type, message, templfile, file,
                  rendered, r1, r2, update >>

\* case 's': opts.subject = option.optarg
OptSubject ==
  /\ pc = "parse"
  /\ LET g == Getopt(argv, optind)
     IN  /\ g.option = "-s"
         /\ opts' = [opts EXCEPT !.subject = Of(g.optarg)]
         /\ optind' = g.optind
         /\ parsed' = Returned(g)
  /\ UNCHANGED << argv, env, pc, args, nagios, data, type, message, templfile, file,
                  rendered, r1, r2, stdout, stderr, exitcode, update >>

\* case 't': opts.templatedir = option.optarg
OptTemplateDir ==
  /\ pc = "parse"
  /\ LET g == Getopt(argv, optind)
     IN  /\ g.option = "-t"
         /\ opts' = [opts EXCEPT !.templatedir = Of(g.optarg)]
         /\ optind' = g.optind
         /\ parsed' = Returned(g)
  /\ UNCHANGED << argv, env, pc, args, nagios, data, type, message, templfile, file,
                  rendered, r1, r2, stdout, stderr, exitcode, update >>

\* -u with a break in place of its return: the script goes on
OptUpdates_Break ==
  /\ pc = "parse"
  /\ LET g == Getopt(argv, optind)
     IN  /\ g.option = "-u"
         /\ optind' = g.optind
         /\ parsed' = Returned(g)
  /\ update' = [update EXCEPT !.state = "pending"]
  /\ UNCHANGED << argv, env, pc, opts, args, nagios, data, type, message, templfile, file,
                  rendered, r1, r2, stdout, stderr, exitcode >>

\* case 'u': fire the update check and return from the script
OptUpdates ==
  /\ pc = "parse"
  /\ LET g == Getopt(argv, optind)
     IN  /\ g.option = "-u"
         /\ optind' = g.optind
         /\ parsed' = Returned(g)
  /\ update' = [update EXCEPT !.state = "pending"]
  /\ pc' = "updating"
  /\ UNCHANGED << argv, env, opts, args, nagios, data, type, message, templfile, file,
                  rendered, r1, r2, stdout, stderr, exitcode >>

\* case 'v': console.log(package.version); process.exit(0)
OptVersion ==
  /\ pc = "parse"
  /\ LET g == Getopt(argv, optind)
     IN  /\ g.option = "-v"
         /\ optind' = g.optind
         /\ parsed' = Returned(g)
  /\ Write(ConsoleLog(Streams, << Of(Package.version) >>))
  /\ Exit(0)
  /\ UNCHANGED << argv, env, opts, args, nagios, data, type, message, templfile, file,
                  rendered, r1, r2, update >>

\* default: console.error(usage()); process.exit(1)
\* (the parser has written its own complaint to the error stream)
OptDefault ==
  /\ pc = "parse"
  /\ LET g == Getopt(argv, optind)
     IN  /\ g.option = "?"
         /\ optind' = g.optind
         /\ parsed' = Returned(g)
  /\ Write(ConsoleError(ConsoleError(Streams, << GetoptErrorText >>), << Usage >>))
  /\ Exit(1)
  /\ UNCHANGED << argv, env, opts, args, nagios, data, type, message, templfile, file,
                  rendered, r1, r2, update >>

\* getopt() returned undefined: the loop ends
ParseEnd ==
  /\ pc = "parse"
  /\ LET g == Getopt(argv, optind)
     IN  /\ g.option = "end"
         /\ optind' = g.optind
  /\ pc' = "context"
  /\ UNCHANGED << argv, env, opts, parsed, args, nagios, data, type, message, templfile,
                  file, rendered, r1, r2, stdout, stderr, exitcode, update >>

\* args, nagios and data
BuildContext ==
  /\ pc = "context"
  /\ args' = SubSeq(argv, optind, Len(argv))
  /\ nagios' = NagiosSnapshot(env)
  /\ data' = [args |-> args', nagios |-> nagios', package |-> Package]
  /\ pc' = "classify"
  /\ UNCHANGED << argv, env, optind, opts, parsed, type, message, templfile, file,
                  rendered, r1, r2, stdout, stderr, exitcode, update >>

Classify ==
  /\ pc = "classify"
  /\ type' = ClassifyType(env, data["nagios"])
  /\ pc' = "checktype"
  /\ UNCHANGED << argv, env, optind, opts, parsed, args, nagios, data, message, templfile,
                  file, rendered, r1, r2, stdout, stderr, exitcode, update >>

\* if (!type) ...
CheckType ==
  /\ pc = "checktype"
  /\ IF ~Truthy(type)
       THEN /\ Write(ConsoleError(Streams, << MissingTypeText, << >>, Usage >>))
            /\ Exit(1)
       ELSE /\ pc' = "recipient"
            /\ UNCHANGED << stdout, stderr, exitcode >>
  /\ UNCHANGED << argv, env, optind, opts, parsed, args, nagios, data, type, message,
                  templfile, file, rendered, r1, r2, update >>

\* if (!opts.to) ...
CheckRecipient ==
  /\ pc = "recipient"
  /\ IF RecipientMissing(opts.to)
       THEN /\ Write(ConsoleError(Streams, << MissingRecipientText, << >>, Usage >>))
            /\ Exit(1)
       ELSE /\ pc' = "subject"
            /\ UNCHANGED << stdout, stderr, exitcode >>
  /\ UNCHANGED << argv, env, optind, opts, parsed, args, nagios, data, type, message,
                  templfile, file, rendered, r1, r2, update >>

\* create the subject if -s is not supplied
BuildSubject ==
  /\ pc = "subject"
  /\ opts' = [opts EXCEPT !.subject = SubjectFor(opts.subject, type, data["nagios"])]
  /\ pc' = "headers"
  /\ UNCHANGED << argv, env, optind, parsed, args, nagios, data, type, message, templfile,
                  file, rendered, r1, r2, stdout, stderr, exitcode, update >>

\* email headers
EmitHeaders ==
  /\ pc = "headers"
  /\ Write(ConsoleLog(Streams, HeaderLines(opts.to, opts.subject)))
  /\ pc' = "dump"
  /\ UNCHANGED << argv, env, optind, opts, parsed, args, nagios, data, type, message,
                  templfile, file, rendered, r1, r2, exitcode, update >>

\* data.d = JSON.stringify(data, null, 2)
DumpContext ==
  /\ pc = "dump"
  /\ data' = WithD(data, JsonStringify(data))
  /\ pc' = "inline"
  /\ UNCHANGED << argv, env, optind, opts, parsed, args, nagios, type, message, templfile,
                  file, rendered, r1, r2, stdout, stderr, exitcode, update >>

\* stage 1: the inline template, its error text on failure
RenderInline ==
  /\ pc = "inline"
  /\ \E engineOk \in BOOLEAN :
       /\ r1' = EjsRender(InlineTemplate, data, engineOk)
       /\ rendered' = Append(rendered, data)
       /\ message' = InlineStage(r1')
       /\ Write(IF r1'.ok THEN Streams ELSE ConsoleError(Streams, << message' >>))
  /\ pc' = "file"
  /\ UNCHANGED << argv, env, optind, opts, parsed, args, nagios, data, type, templfile,
                  file, r2, exitcode, update >>

\* stage 2: <templatedir>/<type>.html.ejs
RenderFile ==
  /\ pc = "file"
  /\ templfile' = PathJoin(opts.templatedir, ToStr(type) \o Of(".html.ejs"))
  /\ \E f \in FileReads, engineOk \in BOOLEAN :
       /\ file' = f
       /\ r2' = IF f.found THEN EjsRender(f.templ, data, engineOk) ELSE NoRender
       /\ rendered' = IF f.found THEN Append(rendered, data) ELSE rendered
       /\ message' = FileStage(message, f, r2')
       /\ Write(IF FileFailed(f, r2')
                  THEN ConsoleError(Streams,
                                    << FileErrorLine(templfile', FileErrorMsg(f, r2')) >>)
                  ELSE Streams)
  /\ pc' = "body"
  /\ UNCHANGED << argv, env, optind, opts, parsed, args, nagios, data, type, r1,
                  exitcode, update >>

\* dump the message to stdout; the script ends
EmitBody ==
  /\ pc = "body"
  /\ Write(ConsoleLog(Streams, << ToStr(message) >>))
  /\ pc' = "done"
  /\ exitcode' = 0
  /\ UNCHANGED << argv, env, optind, opts, parsed, args, nagios, data, type, message,
                  templfile, file, rendered, r1, r2, update >>

\* function(ret, msg) { console.log(msg); process.exit(ret); }
UpdateCallback ==
  /\ pc = "updating"
  /\ update.state = "pending"
  /\ \E ret \in UpdateRets, m \in UpdateMsgs :
       /\ update' = [state |-> "done", ret |-> ret, msg |-> m]
       /\ Write(ConsoleLog(Streams, << m >>))
       /\ Exit(ret)
  /\ UNCHANGED << argv, env, optind, opts, parsed, args, nagios, data, type, message,
                  templfile, file, rendered, r1, r2 >>

Next ==
  \/ OptAddress
  \/ OptHelp
  \/ OptSubject
  \/ OptTemplateDir
  \/ OptUpdates
  \/ OptVersion
  \/ OptDefault
  \/ ParseEnd
  \/ BuildContext
  \/ Classify
  \/ CheckType
  \/ CheckRecipient
  \/ BuildSubject
  \/ EmitHeaders
  \/ DumpContext
  \/ RenderInline
  \/ RenderFile
  \/ EmitBody
  \/ UpdateCallback

Spec == Init /\ [][Next]_vars

(***************************************************************************)
(* Vocabulary of the properties.                                           *)
(***************************************************************************)
EnvVal(n) == env[<< Prefix, n >>]
Reached(o) == \E i \in DOMAIN parsed : parsed[i].option = o
LastArgOf(o) ==
  parsed[CHOOSE i \in DOMAIN parsed :
           /\ parsed[i].option = o
           /\ \A j \in DOMAIN parsed : parsed[j].option = o => j <= i].optarg
TerminalReached == Reached("-h") \/ Reached("-v") \/ Reached("-u")
PastChecks == pc \in {"subject", "headers", "dump", "inline", "file", "body", "done"}
Ended == pc \in {"exited", "done"}
Stage1Result == IF r1.ok THEN r1.out ELSE Of("error rendering default template!: ") \o r1.msg
FileRendered == file.found /\ r2.ok
Shown(n) == IF EnvVal(n) = Unset THEN Of("undefined") ELSE Of(EnvVal(n))
AuthorGiven == EnvVal("NOTIFICATIONAUTHOR") \notin {Unset, ""}
NoRecipient ==
  /\ EnvVal("CONTACTEMAIL") \in {Unset, ""}
  /\ \A i \in DOMAIN argv : argv[i] = "-a" => (i = Len(argv) \/ argv[i + 1] = "")
ExpectedHeaders ==
  << Of("To: ") \o opts.to, Of("Reply-To: ") \o opts.to, Of("Subject: ") \o opts.subject,
     Of("Content-Type: text/html"), << >> >>
ExpectedFileError ==
  Of("template ") \o templfile \o Of(" error: ")
  \o (IF file.found THEN r2.msg ELSE Of("ENOENT: no such file or directory"))
DiagnosticsLogged ==
  /\ (pc = "exited" /\ exitcode = 1 /\ update.state = "none") =>
        (Usage \in Range(stderr) /\ stdout = << >>)
  /\ (pc \in {"file", "body", "done"} /\ ~r1.ok) => Stage1Result \in Range(stderr)
  /\ (pc \in {"body", "done"} /\ ~FileRendered) => ExpectedFileError \in Range(stderr)
HelpOnly ==
  /\ update.state = "none"
  /\ pc \in {"parse", "exited"}
  /\ stderr = << >>
  /\ pc = "exited" => (stdout = << Usage >> /\ exitcode = 0)
  /\ type = JsUndefined /\ data = NoObject /\ message = JsUndefined
\* position i of the command line holds an option: only options of the
\* program, each with its argument, stand before it
RECURSIVE IsOptionPosition(_, _)
IsOptionPosition(av, i) ==
  \/ i = 1
  \/ i > 1 /\ av[i - 1] \in FlagOptions /\ IsOptionPosition(av, i - 1)
  \/ i > 2 /\ av[i - 2] \in ArgOptions /\ IsOptionPosition(av, i - 2)
HelpGiven == \E i \in DOMAIN argv : argv[i] = "-h" /\ IsOptionPosition(argv, i)
ExpectedDefault ==
  IF type = Of("host") THEN Shown("HOSTADDRESS") \o Of(" is ") \o Shown("HOSTSTATE")
  ELSE IF type = Of("service")
    THEN Shown("SERVICESTATE") \o Of(": ") \o Shown("HOSTADDRESS") \o Of(" - ")
         \o Shown("SERVICEDESC")
  ELSE Shown("NOTIFICATIONTYPE") \o Of(": ") \o Shown("HOSTADDRESS") \o Of(" - ")
       \o Shown("SERVICEDESC")
HeadersOut == pc \in {"dump", "inline", "file", "body", "done"}
SnapshotOfEnv ==
  /\ DOMAIN nagios = {KeyOrder[i] : i \in {j \in DOMAIN KeyOrder : EnvVal(KeyOrder[j]) # Unset}}
  /\ \A n \in DOMAIN nagios : nagios[n] = EnvVal(n)
Constructed == [args |-> args, nagios |-> nagios, package |-> Package]
ContextBuilt == pc \in {"classify", "checktype", "recipient"} \/ PastChecks
                  \/ (pc = "exited" /\ type # JsUndefined)

(***************************************************************************)
(* C1 as stated: on a run that passed the configuration checks the body    *)
(* is the file template's output when the file was read and rendered, and  *)
(* the result of stage 1 otherwise; after the two stages the message is    *)
(* set, and the emitted body is never empty.                               *)
(***************************************************************************)
C1_BodyNeverEmpty ==
  /\ pc \in {"body", "done"} => message # JsUndefined
  /\ pc = "done" =>
       /\ stdout[Len(stdout)] = (IF FileRendered THEN r2.out ELSE Stage1Result)
       /\ stdout[Len(stdout)] # << >>

(***************************************************************************)
(* C1 as amended: the body is the file template's output when the file     *)
(* was read and rendered, and the result of stage 1 otherwise; the message *)
(* is set after the two stages; the body is non-empty whenever it comes    *)
(* from stage 1, and is empty exactly when the file template rendered to   *)
(* the empty text.                                                         *)
(***************************************************************************)
C1_BodyFromStages ==
  /\ pc \in {"body", "done"} =>
       /\ message # JsUndefined
       /\ message = (IF FileRendered THEN r2.out ELSE Stage1Result)
       /\ templfile = opts.templatedir \o Of("/") \o type \o Of(".html.ejs")
            \/ (opts.templatedir = << >> /\ templfile = type \o Of(".html.ejs"))
  /\ pc = "done" =>
       /\ stdout[Len(stdout)] = (IF FileRendered THEN r2.out ELSE Stage1Result)
       /\ ~FileRendered => stdout[Len(stdout)] # << >>
       /\ stdout[Len(stdout)] = << >> <=> (FileRendered /\ file.templ = "")
C1_Witness ==
  /\ pc = "done"
  /\ file.found /\ ~r2.ok /\ r1.ok
  /\ stdout[6] = r1.out

(***************************************************************************)
(* C2 as stated: with no recipient from -a or NAGIOS_CONTACTEMAIL, for     *)
(* every other option, argument and environment the process exits with    *)
(* status 1, writes the usage text to the error stream and writes nothing  *)
(* to standard output.                                                     *)
(***************************************************************************)
C2_AlwaysExitsOne ==
  (EnvVal("CONTACTEMAIL") = Unset /\ "-a" \notin Range(argv)) =>
     /\ stdout = << >>
     /\ Ended => (exitcode = 1 /\ Usage \in Range(stderr))

(***************************************************************************)
(* C2 as amended: with no non-empty recipient from -a or                   *)
(* NAGIOS_CONTACTEMAIL, and as long as option parsing has not reached -h,  *)
(* -v or -u, nothing is written to standard output, no step after the      *)
(* recipient check runs, and the process ends only with status 1 and the   *)
(* usage text on the error stream.                                         *)
(***************************************************************************)
C2_MissingRecipient ==
  (NoRecipient /\ ~TerminalReached) =>
     /\ stdout = << >>
     /\ ~PastChecks
     /\ pc = "exited" => (exitcode = 1 /\ Usage \in Range(stderr))
C2_Witness ==
  /\ NoRecipient /\ ~TerminalReached
  /\ Reached("-s")
  /\ pc = "exited" /\ exitcode = 1
  /\ stderr = << MissingRecipientText, << >>, Usage >>
  /\ stdout = << >>

C4_NoAttemptIsHost ==
  EnvVal("SERVICEATTEMPT") = Unset =>
     /\ type \in {JsUndefined, Of("host")}
     /\ (pc \in {"checktype", "recipient"} \/ PastChecks) => type = Of("host")
C4_Witness ==
  /\ EnvVal("SERVICEATTEMPT") = Unset
  /\ EnvVal("NOTIFICATIONAUTHOR") = "admin"
  /\ args # << >>
  /\ type = Of("host")

(***************************************************************************)
(* C5: a run that passed the configuration checks writes to standard       *)
(* output To, Reply-To with the same address, Subject, Content-Type, a     *)
(* blank line and then the body, each once and in this order, nothing      *)
(* after the body, and ends with status 0 whatever the two render stages   *)
(* did; no such run ends through process.exit.                             *)
(***************************************************************************)
C5_OutputOrder ==
  /\ pc \in {"subject", "headers"} => stdout = << >>
  /\ pc \in {"dump", "inline", "file", "body"} => (stdout = ExpectedHeaders /\ exitcode = Running)
  /\ pc = "done" => (stdout = Append(ExpectedHeaders, message) /\ exitcode = 0)
  /\ pc = "exited" => (Len(stdout) <= 1 /\ rendered = << >> /\ message = JsUndefined)
C5_Witness ==
  /\ pc = "done"
  /\ ~r1.ok /\ ~file.found
  /\ Len(stdout) = 6
  /\ exitcode = 0

(***************************************************************************)
(* C6 as stated: usage on a bad option, the missing-recipient text and the *)
(* two template error texts are written to the error stream, and none of   *)
(* the text written to the error stream ever appears on standard output.   *)
(***************************************************************************)
C6_NoDiagnosticOnStdout ==
  /\ DiagnosticsLogged
  /\ \A i \in DOMAIN stdout : stdout[i] \notin Range(stderr)

(***************************************************************************)
(* C6 as amended: usage on a bad option, the missing-recipient text and    *)
(* the two template error texts are written to the error stream; the only  *)
(* one of them that also reaches standard output is the error text of the  *)
(* default template, which is the emitted body exactly when the inline     *)
(* render threw and the file template was missing or failed.               *)
(***************************************************************************)
C6_OnlyInlineErrorOnStdout ==
  /\ DiagnosticsLogged
  /\ \A i \in DOMAIN stdout :
       stdout[i] \in Range(stderr) =>
         (pc = "done" /\ i = 6 /\ ~r1.ok /\ ~FileRendered /\ stdout[i] = Stage1Result)
  /\ (pc = "done" /\ ~r1.ok /\ ~FileRendered) => stdout[6] = Stage1Result
C6_Witness ==
  /\ pc = "done"
  /\ ~r1.ok /\ file.found /\ ~r2.ok
  /\ Len(stderr) = 2
  /\ stdout[6] = stderr[1]
  /\ stderr[2] \notin Range(stdout)

C9_UpdateShortCircuits ==
  /\ Reached("-u") <=> update.state # "none"
  /\ update.state # "none" =>
       /\ parsed[Len(parsed)].option = "-u"
       /\ type = JsUndefined /\ data = NoObject /\ message = JsUndefined
       /\ rendered = << >> /\ stderr = << >>
  /\ update.state = "pending" => (pc = "updating" /\ exitcode = Running /\ stdout = << >>)
  /\ update.state = "done" =>
       (pc = "exited" /\ exitcode = update.ret /\ stdout = << update.msg >>)
C9_Witness ==
  /\ update.state = "done"
  /\ update.ret = 2
  /\ argv = << "-u", "-h" >>
  /\ pc = "exited" /\ exitcode = 2

(***************************************************************************)
(* C10 as stated: once the context and the snapshot are built no later     *)
(* step changes them, so the context handed to a template has exactly the  *)
(* keys and values of the context that was constructed.                    *)
(***************************************************************************)
C10_ContextNeverChanges ==
  ContextBuilt =>
     /\ SnapshotOfEnv
     /\ args = SubSeq(argv, optind, Len(argv))
     /\ data = Constructed
     /\ \A i \in DOMAIN rendered : rendered[i] = Constructed

(***************************************************************************)
(* C10 as amended: once the context and the snapshot are built, the        *)
(* positional arguments, the snapshot and the package metadata never       *)
(* change; the one later write to the context adds the key d, the JSON     *)
(* dump of the context as constructed, before the inline render, so both   *)
(* templates are handed the constructed keys with their values plus d.     *)
(***************************************************************************)
C10_ContextOnlyGainsD ==
  ContextBuilt =>
     /\ SnapshotOfEnv
     /\ args = SubSeq(argv, optind, Len(argv))
     /\ \A k \in DOMAIN Constructed : k \in DOMAIN data /\ data[k] = Constructed[k]
     /\ DOMAIN data \subseteq DOMAIN Constructed \cup {"d"}
     /\ "d" \in DOMAIN data <=> pc \in {"inline", "file", "body", "done"}
     /\ "d" \in DOMAIN data => data["d"] = JsonStringify(Constructed)
     /\ \A i \in DOMAIN rendered : rendered[i] = data /\ "d" \in DOMAIN rendered[i]
C10_Witness ==
  /\ pc = "done"
  /\ Len(rendered) = 2
  /\ rendered[2] = data
  /\ DOMAIN data = {"args", "nagios", "package", "d"}
  /\ args # << >>
  /\ file.templ = InlineTemplate /\ r2.ok
====
